---- MODULE Spec2Model ----
(***************************************************************************)
(* Scout2.py, main(): the analysis pipeline of one run.                    *)
(*                                                                         *)
(*   load findings -> cross-service enrichment -> rule loop (evaluator +   *)
(*   violation records) -> tweaks -> exception filter -> report.           *)
(*                                                                         *)
(* aws_config['services'] is modelled as a map service -> node; a node     *)
(* that was filled holds 'resources' (id -> attribute -> scalar) and       *)
(* 'violations' (rule id -> violation record).  A violation record is a    *)
(* Python dict: `keys` is the set of keys it holds, the other fields are   *)
(* the values of the keys the claims read.                                 *)
(*                                                                         *)
(* The evaluator (recurse), the enrichers and the loaders live in the      *)
(* AWSScout2 / opinel packages; they are modelled from the design          *)
(* document (path evaluator: literal segments, wildcard, absence           *)
(* tolerance; a raising condition propagates to the rule boundary).        *)
(***************************************************************************)
EXTENDS Integers, Sequences, FiniteSets, TLC

\* Bounds of the model.
MaxRules == 2
MaxExceptions == 2

Services == {"ec2", "iam", "s3"}

Wildcard == "*"

EmptyMap == [k \in {} |-> 0]

\* Every key a tree level can hold, in sorted order: the deterministic
\* enumeration order of a wildcard.
KeyOrder ==
    << "acl", "b-1", "checked_items", "dashboard_name", "description",
       "display_path", "ec2", "ec2-instances", "ec2-public-ip", "ec2-raise",
       "ec2-violations", "flagged_items", "i-1", "i-2", "iam",
       "iam-no-description", "iam_role", "id_suffix", "items", "level", "path",
       "policies", "policy", "public_ip", "resources", "role-a", "s3",
       "s3-bucket-policies", "s3-no-level", "service", "violations" >>

\* What the fetch layer returns for a service (get_<service>_info).
FetchedResources(service) ==
    CASE service = "ec2" -> ("i-1" :> ("public_ip" :> "1.2.3.4"))
                            @@ ("i-2" :> ("public_ip" :> "null"))
      [] service = "iam" -> ("role-a" :> ("policy" :> "allow-all"))
      [] service = "s3"  -> ("b-1" :> ("acl" :> "null"))

AllFields ==
    {"description", "path", "level", "id_suffix", "display_path",
     "dashboard_name", "checked_items"}

\* The rule definitions a ruleset can hold.  finding_path is the key of
\* rules[...] split on dots; fields is the set of keys of the rule's dict.
RulePool ==
    { [id |-> "ec2-public-ip",
       finding_path |-> <<"ec2", "resources", Wildcard, "public_ip">>,
       condition |-> "nonnull", polarity |-> TRUE,
       fields |-> AllFields, checked_items |-> 2],
      [id |-> "ec2-instances",
       finding_path |-> <<"ec2", "resources", Wildcard>>,
       condition |-> "nonnull", polarity |-> TRUE,
       fields |-> {"description", "path", "level", "checked_items"},
       checked_items |-> 1],
      [id |-> "ec2-raise",
       finding_path |-> <<"ec2", "resources", Wildcard, "public_ip">>,
       condition |-> "raise", polarity |-> TRUE,
       fields |-> {"description", "path", "level", "checked_items"},
       checked_items |-> 2],
      [id |-> "ec2-violations",
       finding_path |-> <<"ec2", "violations", Wildcard>>,
       condition |-> "nonnull", polarity |-> TRUE,
       fields |-> {"description", "path", "level"}, checked_items |-> 0],
      [id |-> "s3-bucket-policies",
       finding_path |-> <<"s3", "resources", Wildcard, "policies">>,
       condition |-> "nonnull", polarity |-> FALSE,
       fields |-> {"description", "path", "level", "dashboard_name"},
       checked_items |-> 0],
      [id |-> "s3-no-level",
       finding_path |-> <<"s3", "resources", Wildcard, "acl">>,
       condition |-> "nonnull", polarity |-> FALSE,
       fields |-> {"description", "path"}, checked_items |-> 0],
      [id |-> "iam-no-description",
       finding_path |-> <<"iam", "resources", Wildcard, "policy">>,
       condition |-> "nonnull", polarity |-> TRUE,
       fields |-> {"path", "level"}, checked_items |-> 0] }

\* Item identifiers an exception file can list.  The rules flag instances
\* (ec2.resources.i-1) and attributes (ec2.resources.i-1.public_ip), so an
\* entry can be equal to a flagged item, a prefix of one, or an extension
\* of one.
ExceptionItemPool ==
    { <<"ec2", "resources", "i-1", "public_ip">>,
      <<"ec2", "resources", "i-1">>,
      <<"ec2", "resources", "i-2", "public_ip">> }

VARIABLES
    pc,             \* position of main()
    aborted_at,     \* position at which an exception left main()
    services,       \* build_services_list(args.services, args.skipped_services)
    exceptions_arg, \* args.exceptions[0]: "none" or "file"
    aws_config,     \* aws_config['services']
    rules,          \* the loaded rules, in iteration order
    next_rule,      \* index of the next rule of the loop
    failed,         \* ids of the rules whose evaluation raised
    exceptions,     \* state of the exceptions dict: "unread", "loaded"
    filtered,       \* (service, rule) entries of the exceptions already applied
    last_filter,    \* the last entry applied and the items it met
    trace,          \* enricher and evaluator calls, in call order
    first_call,     \* the tree handed to the first recurse call
    last_call,      \* the tree handed to the latest recurse call
    evaluated,      \* rule id -> what recurse returned for it
    report          \* create_scout_report was called

vars ==
    << pc, aborted_at, services, exceptions_arg, aws_config, rules, next_rule,
       failed, exceptions, filtered, last_filter, trace, first_call, last_call,
       evaluated, report >>

----------------------------------------------------------------------------
\* The configuration tree as the evaluator walks it.

\* Keys of the node at path p (empty for a scalar or a missing node).
Keys(all_info, p) ==
    IF Len(p) = 0 THEN Services
    ELSE IF p[1] \notin Services \/ ~all_info[p[1]].present THEN {}
    ELSE IF Len(p) = 1 THEN {"resources", "violations"}
    ELSE IF p[2] = "resources" THEN
        IF Len(p) = 2 THEN DOMAIN all_info[p[1]].resources
        ELSE IF Len(p) = 3 /\ p[3] \in DOMAIN all_info[p[1]].resources
            THEN DOMAIN all_info[p[1]].resources[p[3]]
        ELSE {}
    ELSE IF p[2] = "violations" THEN
        IF Len(p) = 2 THEN DOMAIN all_info[p[1]].violations
        ELSE IF Len(p) = 3 /\ p[3] \in DOMAIN all_info[p[1]].violations
            THEN all_info[p[1]].violations[p[3]].keys
        ELSE {}
    ELSE {}

\* The node at p is the scalar null.  Only resource attributes hold null;
\* mappings, lists and the fields of a violation record are not null.
IsNull(all_info, p) ==
    /\ Len(p) = 4
    /\ p[2] = "resources"
    /\ all_info[p[1]].resources[p[3]][p[4]] = "null"

NoMatch == [raised |-> FALSE, items |-> <<>>]

RECURSIVE recurse(_, _, _, _)
RECURSIVE recurse_children(_, _, _, _, _)

\* recurse(all_info, current_info, target_path, current_path, config, True):
\* current_info is the node of all_info at current_path.
recurse(all_info, current_path, target_path, config) ==
    IF target_path = <<>> THEN
        IF config.condition = "raise" THEN [raised |-> TRUE, items |-> <<>>]
        ELSE IF (~IsNull(all_info, current_path)) = config.polarity
            THEN [raised |-> FALSE, items |-> <<current_path>>]
        ELSE NoMatch
    ELSE IF Head(target_path) = Wildcard THEN
        recurse_children(all_info, current_path, Tail(target_path), config,
            SelectSeq(KeyOrder, LAMBDA k : k \in Keys(all_info, current_path)))
    ELSE IF Head(target_path) \in Keys(all_info, current_path) THEN
        recurse(all_info, Append(current_path, Head(target_path)),
                Tail(target_path), config)
    ELSE NoMatch

recurse_children(all_info, current_path, target_path, config, children) ==
    IF children = <<>> THEN NoMatch
    ELSE LET here == recurse(all_info, Append(current_path, Head(children)),
                             target_path, config)
             rest == recurse_children(all_info, current_path, target_path,
                                      config, Tail(children))
         IN  IF here.raised \/ rest.raised THEN [raised |-> TRUE, items |-> <<>>]
             ELSE [raised |-> FALSE, items |-> here.items \o rest.items]

----------------------------------------------------------------------------
\* Violation records.

\* The record stored beside the resources instead of under 'violations'.
SetViolationAmongResources(all_info, service, rule, record) ==
    [all_info EXCEPT
        ![service].violations =
            [r \in DOMAIN @ \cup {rule} |-> IF r = rule THEN record ELSE @[r]],
        ![service].resources =
            [r \in DOMAIN @ \cup {rule} |->
                IF r = rule THEN ("flagged_items" :> "0") ELSE @[r]]]

\* aws_config['services'][service]['violations'][rule] = record
SetViolation(all_info, service, rule, record) ==
    [all_info EXCEPT ![service].violations =
        [r \in DOMAIN @ \cup {rule} |-> IF r = rule THEN record ELSE @[r]]]

\* The record after lines 172-179, for a rule that has its required fields.
NewRecord(config) ==
    [keys |-> {"description", "path", "level"}
              \cup (config.fields \cap {"id_suffix", "display_path"}),
     items |-> <<>>, checked_items |-> 0, flagged_items |-> 0]

\* The record as far as lines 172-175 get for a rule lacking 'path' or 'level'.
PartialRecord(config) ==
    [keys |-> IF "path" \in config.fields THEN {"description", "path"}
              ELSE {"description"},
     items |-> <<>>, checked_items |-> 0, flagged_items |-> 0]

\* Lines 181-185: the evaluator returned.
Evaluated(record, config, items) ==
    [keys |-> record.keys \cup {"items", "dashboard_name", "checked_items",
                                "flagged_items", "service"},
     items |-> items,
     checked_items |-> IF "checked_items" \in config.fields
                       THEN config.checked_items ELSE 0,
     flagged_items |-> Len(items)]

\* A fallback that reports the failure and sets no count.
FallbackWithoutCounts(record) == record

\* Lines 186-191: the evaluator raised.
Fallback(record) ==
    [record EXCEPT !.keys = @ \cup {"checked_items", "flagged_items"},
                   !.checked_items = 0,
                   !.flagged_items = 0]

\* One iteration of the rule loop, lines 168-191.
\*   outcome "keyerror": a required field is missing, the exception leaves main
\*   outcome "failed":   recurse raised, the fallback record is stored
\*   outcome "ok":       the record holds the evaluator's items
ProcessRule(all_info, config) ==
    LET service == config.finding_path[1]
        begun   == SetViolation(all_info, service, config.id, NewRecord(config))
        result  == recurse(begun, <<>>, config.finding_path, config)
    IN  IF "description" \notin config.fields THEN
            [outcome |-> "keyerror", called |-> FALSE, tree |-> all_info,
             all_info |-> all_info, items |-> <<>>]
        ELSE IF ~({"path", "level"} \subseteq config.fields) THEN
            [outcome |-> "keyerror", called |-> FALSE, tree |-> all_info,
             all_info |-> SetViolation(all_info, service, config.id,
                                       PartialRecord(config)),
             items |-> <<>>]
        ELSE IF result.raised THEN
            [outcome |-> "failed", called |-> TRUE, tree |-> begun,
             all_info |-> SetViolation(begun, service, config.id,
                                       Fallback(NewRecord(config))),
             items |-> <<>>]
        ELSE
            [outcome |-> "ok", called |-> TRUE, tree |-> begun,
             all_info |-> SetViolation(begun, service, config.id,
                 Evaluated(NewRecord(config), config, result.items)),
             items |-> result.items]

----------------------------------------------------------------------------
\* Enrichment and exception filtering.

\* An enricher attaches the derived attribute to the records in `done`.
Attach(all_info, service, attribute, value, done) ==
    [all_info EXCEPT ![service].resources =
        [id \in DOMAIN @ |->
            IF id \in done
            THEN [a \in DOMAIN @[id] \cup {attribute} |->
                    IF a = attribute THEN value ELSE @[id][a]]
            ELSE @[id]]]

IsPrefix(p, q) == Len(p) <= Len(q) /\ SubSeq(q, 1, Len(p)) = p

\* An exception entry that also covers the identifiers it is a prefix of.
ListedByPrefix(item, exception_items) ==
    \E e \in exception_items : IsPrefix(e, item)

\* Line 206: item in exceptions['services'][service]['exceptions'][rule]
Listed(item, exception_items) == item \in exception_items

RECURSIVE FilterItems(_, _)
\* Lines 204-207: keep the items that are not in the exception list.
FilterItems(items, exception_items) ==
    IF items = <<>> THEN <<>>
    ELSE IF ~Listed(Head(items), exception_items)
        THEN <<Head(items)>> \o FilterItems(Tail(items), exception_items)
    ELSE FilterItems(Tail(items), exception_items)

\* Lines 208-209.
Filtered(record, exception_items) ==
    [record EXCEPT !.items = FilterItems(@, exception_items),
                   !.flagged_items = Len(FilterItems(record.items, exception_items)),
                   !.keys = @ \cup {"flagged_items"}]

\* aws_config['services'][service]['violations'][rule]['items'] can be read.
HasItems(all_info, service, rule) ==
    /\ service \in Services
    /\ all_info[service].present
    /\ rule \in DOMAIN all_info[service].violations
    /\ "items" \in all_info[service].violations[rule].keys

----------------------------------------------------------------------------
\* The stages with the two enrichers exchanged.
StageAfterExchanged(stage) ==
    CASE stage = "setup" -> "load_findings"
      [] stage = "load_findings" -> "match_iam_policies_and_buckets"
      [] stage = "match_iam_policies_and_buckets" -> "match_instances_and_roles"
      [] stage = "match_instances_and_roles" -> "rules"
      [] stage = "rules" -> "tweaks"
      [] stage = "tweaks" -> "load_exceptions"
      [] stage = "load_exceptions" -> "exceptions"
      [] stage = "exceptions" -> "metadata"
      [] stage = "metadata" -> "report"
      [] stage = "report" -> "done"

\* The order of the stages of main().
StageAfter(stage) ==
    CASE stage = "setup" -> "load_findings"
      [] stage = "load_findings" -> "match_instances_and_roles"
      [] stage = "match_instances_and_roles" -> "match_iam_policies_and_buckets"
      [] stage = "match_iam_policies_and_buckets" -> "rules"
      [] stage = "rules" -> "tweaks"
      [] stage = "tweaks" -> "load_exceptions"
      [] stage = "load_exceptions" -> "exceptions"
      [] stage = "exceptions" -> "metadata"
      [] stage = "metadata" -> "report"
      [] stage = "report" -> "done"

\* An unreadable exceptions file that is reported and skipped.
AfterLoadExceptionsSkipping(readable) == StageAfter("load_exceptions")

\* Where main() is after json.load of the exceptions file (lines 199-201).
AfterLoadExceptions(readable) ==
    IF readable THEN StageAfter("load_exceptions") ELSE "aborted"

RulesOf(selected) == {r \in RulePool : r.finding_path[1] \in selected}

\* Sequences of distinct rules, at most MaxRules long.
Rulesets(selected) ==
    UNION { { s \in [1..n -> RulesOf(selected)] :
                \A i, j \in 1..n : s[i] = s[j] => i = j } : n \in 0..MaxRules }

Init ==
    /\ pc = "setup"
    /\ aborted_at = "none"
    /\ services \in SUBSET Services
    /\ exceptions_arg \in {"none", "file"}
    /\ aws_config = [s \in Services |->
                        [present |-> FALSE, resources |-> EmptyMap,
                         violations |-> EmptyMap]]
    /\ rules = <<>>
    /\ next_rule = 1
    /\ failed = {}
    /\ exceptions = "unread"
    /\ filtered = {}
    /\ last_filter = [service |-> "none", rule |-> "none", listed |-> {},
                      before |-> <<>>]
    /\ trace = <<>>
    /\ first_call = aws_config
    /\ last_call = aws_config
    /\ evaluated = EmptyMap
    /\ report = FALSE

\* Lines 61-127: the list of services, then the configuration of each.
Setup ==
    /\ pc = "setup"
    /\ IF services = {}
       THEN /\ pc' = "returned"
            /\ UNCHANGED aws_config
       ELSE /\ pc' = StageAfter("setup")
            /\ aws_config' =
                 [s \in Services |->
                    IF s \in services
                    THEN [present |-> TRUE, resources |-> FetchedResources(s),
                          violations |-> EmptyMap]
                    ELSE aws_config[s]]
    /\ UNCHANGED << aborted_at, services, exceptions_arg, rules, next_rule,
                    failed, exceptions, filtered, last_filter, trace,
                    first_call, last_call, evaluated, report >>

\* Lines 129-148: load_ruleset and init_rules, then the violations are reset.
LoadFindings ==
    /\ pc = "load_findings"
    /\ \/ /\ pc' = "aborted"
          /\ aborted_at' = "load_findings"
          /\ UNCHANGED << rules, aws_config >>
       \/ /\ \E ruleset \in Rulesets(services) : rules' = ruleset
          /\ pc' = StageAfter("load_findings")
          /\ aws_config' = [s \in Services |->
                              IF s \in services
                              THEN [aws_config[s] EXCEPT !.violations = EmptyMap]
                              ELSE aws_config[s]]
          /\ UNCHANGED aborted_at
    /\ UNCHANGED << services, exceptions_arg, next_rule, failed, exceptions,
                    filtered, last_filter, trace, first_call, last_call,
                    evaluated, report >>

\* Lines 151-156.
MatchInstancesAndRoles ==
    /\ pc = "match_instances_and_roles"
    /\ pc' = StageAfter("match_instances_and_roles")
    /\ IF {"ec2", "iam"} \subseteq services
       THEN /\ trace' = Append(trace, "match_instances_and_roles")
            /\ \E done \in SUBSET DOMAIN aws_config["ec2"].resources :
                 \E raised \in BOOLEAN :
                    /\ raised => done # DOMAIN aws_config["ec2"].resources
                    /\ aws_config' =
                         Attach(aws_config, "ec2", "iam_role", "role-a", done)
       ELSE UNCHANGED << trace, aws_config >>
    /\ UNCHANGED << aborted_at, services, exceptions_arg, rules, next_rule,
                    failed, exceptions, filtered, last_filter, first_call,
                    last_call, evaluated, report >>

\* Lines 157-162.
MatchIamPoliciesAndBuckets ==
    /\ pc = "match_iam_policies_and_buckets"
    /\ pc' = StageAfter("match_iam_policies_and_buckets")
    /\ IF {"s3", "iam"} \subseteq services
       THEN /\ trace' = Append(trace, "match_iam_policies_and_buckets")
            /\ \E done \in SUBSET DOMAIN aws_config["s3"].resources :
                 \E raised \in BOOLEAN :
                    /\ raised => done # DOMAIN aws_config["s3"].resources
                    /\ aws_config' =
                         Attach(aws_config, "s3", "policies", "allow-all", done)
       ELSE UNCHANGED << trace, aws_config >>
    /\ UNCHANGED << aborted_at, services, exceptions_arg, rules, next_rule,
                    failed, exceptions, filtered, last_filter, first_call,
                    last_call, evaluated, report >>

\* Lines 166-191: one rule of the loop, or the end of the loop.
Rule ==
    /\ pc = "rules"
    /\ IF next_rule > Len(rules)
       THEN /\ pc' = StageAfter("rules")
            /\ UNCHANGED << aborted_at, aws_config, next_rule, failed, trace,
                            first_call, last_call, evaluated >>
       ELSE LET config == rules[next_rule]
                step   == ProcessRule(aws_config, config)
            IN  /\ aws_config' = step.all_info
                /\ next_rule' = next_rule + 1
                /\ IF step.outcome = "keyerror"
                   THEN pc' = "aborted" /\ aborted_at' = "rules"
                   ELSE UNCHANGED << pc, aborted_at >>
                /\ failed' = IF step.outcome = "failed"
                             THEN failed \cup {config.id} ELSE failed
                /\ IF step.called
                   THEN /\ trace' = Append(trace, "recurse")
                        /\ last_call' = step.tree
                        /\ first_call' = IF "recurse" \in {trace[i] : i \in DOMAIN trace}
                                         THEN first_call ELSE step.tree
                   ELSE UNCHANGED << trace, first_call, last_call >>
                /\ evaluated' =
                     IF step.outcome = "ok"
                     THEN [r \in DOMAIN evaluated \cup {config.id} |->
                             IF r = config.id THEN step.items ELSE evaluated[r]]
                     ELSE evaluated
    /\ UNCHANGED << services, exceptions_arg, rules, exceptions, filtered,
                    last_filter, report >>

\* Lines 193-195: 'cloudtrail' is not among the services of the model.
Tweaks ==
    /\ pc = "tweaks"
    /\ pc' = StageAfter("tweaks")
    /\ UNCHANGED << aborted_at, services, exceptions_arg, aws_config, rules,
                    next_rule, failed, exceptions, filtered, last_filter,
                    trace, first_call, last_call, evaluated, report >>

\* Lines 197-201: the exceptions file is opened and parsed.
LoadExceptions ==
    /\ pc = "load_exceptions"
    /\ IF exceptions_arg = "none"
       THEN /\ pc' = StageAfter("exceptions")
            /\ UNCHANGED << aborted_at, exceptions >>
       ELSE \E readable \in BOOLEAN :
              /\ pc' = AfterLoadExceptions(readable)
              /\ exceptions' = IF readable THEN "loaded" ELSE "unread"
              /\ aborted_at' = IF readable THEN aborted_at ELSE "load_exceptions"
    /\ UNCHANGED << services, exceptions_arg, aws_config, rules, next_rule,
                    failed, filtered, last_filter, trace, first_call,
                    last_call, evaluated, report >>

\* The rule ids an exception entry can name: those of the ruleset, and one
\* that the ruleset does not hold.
ExceptionRules == {rules[i].id : i \in DOMAIN rules} \cup {"ec2-retired-rule"}

\* Lines 202-209: one (service, rule) entry of the exceptions, or the end
\* of the loops.
Exception ==
    /\ pc = "exceptions"
    /\ \/ /\ pc' = StageAfter("exceptions")
          /\ UNCHANGED << aborted_at, aws_config, filtered, last_filter >>
       \/ /\ Cardinality(filtered) < MaxExceptions
          /\ \E service \in {"ec2", "s3"}, rule \in ExceptionRules,
                listed \in SUBSET ExceptionItemPool :
              /\ <<service, rule>> \notin filtered
              /\ filtered' = filtered \cup {<<service, rule>>}
              /\ IF HasItems(aws_config, service, rule)
                 THEN /\ aws_config' =
                           SetViolation(aws_config, service, rule,
                               Filtered(aws_config[service].violations[rule], listed))
                      /\ last_filter' =
                           [service |-> service, rule |-> rule, listed |-> listed,
                            before |-> aws_config[service].violations[rule].items]
                      /\ UNCHANGED << pc, aborted_at >>
                 ELSE /\ pc' = "aborted"
                      /\ aborted_at' = "exceptions"
                      /\ UNCHANGED << aws_config, last_filter >>
    /\ UNCHANGED << services, exceptions_arg, rules, next_rule, failed,
                    exceptions, trace, first_call, last_call, evaluated, report >>

\* Lines 211-222: last_run and the dashboard metadata (failure is caught).
Metadata ==
    /\ pc = "metadata"
    /\ pc' = StageAfter("metadata")
    /\ UNCHANGED << aborted_at, services, exceptions_arg, aws_config, rules,
                    next_rule, failed, exceptions, filtered, last_filter,
                    trace, first_call, last_call, evaluated, report >>

\* Lines 224-226: create_scout_report.
Report ==
    /\ pc = "report"
    /\ pc' = StageAfter("report")
    /\ report' = TRUE
    /\ UNCHANGED << aborted_at, services, exceptions_arg, aws_config, rules,
                    next_rule, failed, exceptions, filtered, last_filter,
                    trace, first_call, last_call, evaluated >>

Next ==
    \/ Setup
    \/ LoadFindings
    \/ MatchInstancesAndRoles
    \/ MatchIamPoliciesAndBuckets
    \/ Rule
    \/ Tweaks
    \/ LoadExceptions
    \/ Exception
    \/ Metadata
    \/ Report

Spec == Init /\ [][Next]_vars

----------------------------------------------------------------------------
\* Definitions the properties read.

Range(seq) == {seq[i] : i \in DOMAIN seq}

Called == "recurse" \in Range(trace)

RuleOf(id) == CHOOSE config \in Range(rules) : config.id = id

ServiceOf(config) == config.finding_path[1]

\* aws_config['services'][service]['violations'][rule] of a rule.
Violation(all_info, config) == all_info[ServiceOf(config)].violations[config.id]

HasViolation(all_info, config) ==
    config.id \in DOMAIN all_info[ServiceOf(config)].violations

\* The tree without the violation records.
WithoutViolations(all_info) ==
    [s \in Services |-> [all_info[s] EXCEPT !.violations = EmptyMap]]

\* The finding path leads (literally or by a wildcard) into 'violations'.
EntersViolations(config) ==
    /\ Len(config.finding_path) >= 2
    /\ config.finding_path[2] \in {"violations", Wildcard}

RECURSIVE RunRules(_, _)
\* The rule loop run over a ruleset from a tree: the tree it leaves, at its
\* end or where a KeyError stops it.
RunRules(all_info, ruleset) ==
    IF ruleset = <<>> THEN all_info
    ELSE LET step == ProcessRule(all_info, Head(ruleset))
         IN  IF step.outcome = "keyerror" THEN step.all_info
             ELSE RunRules(step.all_info, Tail(ruleset))

\* The run of the loop over the same enriched tree with rule `id` taken out
\* of the ruleset.
RunWithout(id) ==
    RunRules(WithoutViolations(aws_config),
             SelectSeq(rules, LAMBDA config : config.id # id))

LoopDone == pc \in {"tweaks", "load_exceptions"}

\* The rule loop is over: it ended, or a KeyError left it.
LoopOver == LoopDone \/ (pc = "aborted" /\ aborted_at = "rules")

Saving == pc \in {"metadata", "report", "done"}

Malformed(config) == ~({"description", "path", "level"} \subseteq config.fields)

----------------------------------------------------------------------------
\* C1 (as stated): when recurse raises for exactly one rule of the ruleset,
\* every other rule has, at the end of the loop, the record it has in the
\* run without the failing rule, and the failing rule reports
\* flagged_items = 0.
C1_IsolationAsStated ==
    (LoopDone /\ Cardinality(failed) = 1) =>
        \A id \in failed :
            /\ "flagged_items" \in Violation(aws_config, RuleOf(id)).keys
            /\ Violation(aws_config, RuleOf(id)).flagged_items = 0
            /\ \A config \in Range(rules) :
                 config.id # id =>
                    /\ HasViolation(aws_config, config)
                    /\ Violation(aws_config, config)
                         = Violation(RunWithout(id), config)

\* C1 (amended): when the loop is over and recurse raised for exactly one
\* rule, the failing rule reports flagged_items = 0, every other rule has a
\* record exactly if it has one in the run without the failing rule, and
\* for the rules whose finding path does not lead into a 'violations'
\* subtree it is the same record.
C1_Isolation ==
    (LoopOver /\ Cardinality(failed) = 1) =>
        \A id \in failed :
            /\ "flagged_items" \in Violation(aws_config, RuleOf(id)).keys
            /\ Violation(aws_config, RuleOf(id)).flagged_items = 0
            /\ \A config \in Range(rules) :
                 config.id # id =>
                    /\ HasViolation(aws_config, config)
                         = HasViolation(RunWithout(id), config)
                    /\ (HasViolation(aws_config, config) /\ ~EntersViolations(config))
                         => Violation(aws_config, config)
                              = Violation(RunWithout(id), config)

\* One rule failed and another rule, evaluated after it, flagged items.
C1_Witness ==
    /\ LoopDone
    /\ Cardinality(failed) = 1
    /\ \E i, j \in DOMAIN rules :
         /\ i < j
         /\ rules[i].id \in failed
         /\ ~EntersViolations(rules[j])
         /\ Violation(aws_config, rules[j]).flagged_items > 0

\* C2 (as stated): at the save step every violation record has items and
\* flagged_items is their number.
C2_FlaggedIsLenAsStated ==
    Saving =>
        \A s \in Services : \A id \in DOMAIN aws_config[s].violations :
            /\ "items" \in aws_config[s].violations[id].keys
            /\ "flagged_items" \in aws_config[s].violations[id].keys
            /\ aws_config[s].violations[id].flagged_items
                 = Len(aws_config[s].violations[id].items)

\* C3: after an exception entry is applied, the rule's items are the items
\* it met that the entry does not list (whole identifiers), in their order,
\* nothing is added, flagged_items is their number, and an item that is only
\* a prefix or an extension of a listed identifier stays.
C3_ExceptionFilter ==
    last_filter.rule # "none" =>
        LET record == aws_config[last_filter.service].violations[last_filter.rule]
            before == last_filter.before
            listed == last_filter.listed
        IN  /\ Range(record.items) = Range(before) \ listed
            /\ Len(record.items) = Cardinality(Range(before) \ listed)
            /\ \A i, j \in DOMAIN record.items :
                 i < j =>
                    \E k, l \in DOMAIN before :
                        k < l /\ before[k] = record.items[i]
                              /\ before[l] = record.items[j]
            /\ record.flagged_items = Len(record.items)
            /\ \A item \in Range(before) :
                 (/\ item \notin listed
                  /\ \E e \in listed : IsPrefix(item, e) \/ IsPrefix(e, item))
                    => item \in Range(record.items)

\* An entry removed one item and left one that is a prefix of a listed
\* identifier.
C3_Witness ==
    /\ last_filter.rule # "none"
    /\ \E gone, kept \in Range(last_filter.before) :
         /\ gone \in last_filter.listed
         /\ kept \notin last_filter.listed
         /\ \E e \in last_filter.listed : IsPrefix(kept, e)
         /\ aws_config[last_filter.service].violations[last_filter.rule].items
              = <<kept>>

\* C4 (as stated): with the ruleset (of well-formed rules) and the
\* exceptions loaded, main does not stop before the report whichever rules
\* raised, whatever the enrichers did and whatever the exceptions list, and
\* the report holds a record with counts for every rule of the ruleset.
C4_ReportAlwaysAsStated ==
    (\A config \in Range(rules) : ~Malformed(config)) =>
        /\ pc = "aborted" => aborted_at \in {"load_findings", "load_exceptions"}
        /\ report =>
             \A config \in Range(rules) :
                /\ HasViolation(aws_config, config)
                /\ {"flagged_items", "checked_items"}
                     \subseteq Violation(aws_config, config).keys

\* C5: each enricher is called at most once, match_instances_and_roles
\* before match_iam_policies_and_buckets, and no enricher is called after a
\* recurse call.
C5_EnricherOrder ==
    \A i, j \in DOMAIN trace :
        /\ (trace[i] = trace[j] /\ trace[i] # "recurse") => i = j
        /\ i < j =>
             /\ ~(trace[i] = "recurse" /\ trace[j] # "recurse")
             /\ ~(/\ trace[i] = "match_iam_policies_and_buckets"
                  /\ trace[j] = "match_instances_and_roles")

\* Both enrichers ran and a rule was evaluated.
C5_Witness ==
    /\ Len(trace) >= 3
    /\ trace[1] = "match_instances_and_roles"
    /\ trace[2] = "match_iam_policies_and_buckets"
    /\ trace[3] = "recurse"

\* C6 (as stated): every recurse call is handed the tree the first call
\* was handed.
C6_ReadOnlyTreeAsStated == Called => last_call = first_call

\* C6 (amended): between the first recurse call and the last the tree
\* changes only under the 'violations' of the services, and a rule whose
\* finding path does not lead into 'violations' gets the items it gets on
\* the tree of the first call.
C6_ReadOnlyOutsideViolations ==
    /\ Called =>
         /\ WithoutViolations(last_call) = WithoutViolations(first_call)
         /\ pc = "rules" =>
              WithoutViolations(aws_config) = WithoutViolations(first_call)
    /\ \A id \in DOMAIN evaluated :
         ~EntersViolations(RuleOf(id)) =>
            evaluated[id] = recurse(first_call, <<>>, RuleOf(id).finding_path,
                                    RuleOf(id)).items

\* A second rule was evaluated on a tree that holds the first rule's record
\* and flagged items.
C6_Witness ==
    /\ Called
    /\ last_call # first_call
    /\ \E i \in DOMAIN rules :
         /\ i > 1
         /\ rules[i].id \in DOMAIN evaluated
         /\ ~EntersViolations(rules[i])
         /\ evaluated[rules[i].id] # <<>>

\* C7 (as stated): a record of a rule that supplies a non-zero
\* checked_items has checked_items >= flagged_items.
C7_CheckedCoversFlaggedAsStated ==
    \A config \in Range(rules) :
        (/\ HasViolation(aws_config, config)
         /\ "checked_items" \in config.fields
         /\ config.checked_items # 0
         /\ {"checked_items", "flagged_items"}
              \subseteq Violation(aws_config, config).keys)
            => Violation(aws_config, config).checked_items
                 >= Violation(aws_config, config).flagged_items

\* C8 (as stated): the record of a rule whose evaluation raised holds an
\* empty items collection, flagged_items = 0 and checked_items = 0.
C8_FallbackAsStated ==
    \A id \in failed :
        LET record == Violation(aws_config, RuleOf(id))
        IN  /\ {"items", "flagged_items", "checked_items"} \subseteq record.keys
            /\ record.items = <<>>
            /\ record.flagged_items = 0
            /\ record.checked_items = 0

\* C9 (as stated): a rule lacking description, path or level that the loop
\* has reached leaves main running, with a record of zero counts.
C9_MalformedRuleAsStated ==
    \A i \in DOMAIN rules :
        (i < next_rule /\ Malformed(rules[i])) =>
            /\ pc # "aborted"
            /\ HasViolation(aws_config, rules[i])
            /\ {"flagged_items", "checked_items"}
                 \subseteq Violation(aws_config, rules[i]).keys
            /\ Violation(aws_config, rules[i]).flagged_items = 0

\* C10 (as stated): with an exceptions file given, no recurse call happens
\* before the file was read and found well-formed.
C10_LoadedBeforeEvaluationAsStated ==
    (exceptions_arg = "file" /\ Called) => exceptions = "loaded"

\* C10 (amended): the ruleset is loaded before the first recurse call; the
\* exceptions file is read after the rule loop, and with a file given no
\* report is written unless it was read and found well-formed.
C10_LoadedBeforeReport ==
    /\ Called => (pc \notin {"setup", "load_findings"}
                  /\ aborted_at # "load_findings")
    /\ (exceptions_arg = "file" /\ pc \in {"exceptions", "metadata", "report", "done"})
         => exceptions = "loaded"
    /\ (exceptions_arg = "file" /\ exceptions # "loaded") => ~report

\* A run with a readable exceptions file evaluated rules while the file was
\* unread and wrote the report after it was read.
C10_Witness ==
    /\ exceptions_arg = "file"
    /\ Called
    /\ exceptions = "loaded"
    /\ report
====
